---- MODULE Spec2Model ----
(***************************************************************************)
(* Model of nanobot's QQ channel (src/nanobot/channels/qq.py): the         *)
(* connection lifecycle (start / _run_bot / stop), the outbound dispatcher *)
(* (send) and the two inbound callbacks (_on_message, _on_group_message)   *)
(* with their dedup window.                                                *)
(***************************************************************************)
EXTENDS Integers, Sequences, FiniteSets, TLC

\* ------------------------------------------------------------------ bounds
\* capacity of the dedup window (deque(maxlen=1000) in the code), kept small
DedupCapacity == 2
\* event ids are 1..NumIds
NumIds == 3
\* longest inbound content string
MaxLen == 2
\* how many times start() may create a client and a background task
MaxTasks == 2
\* how many callbacks may be suspended in the bus publish at once
MaxInFlight == 2

\* ------------------------------------------------------- Python values
\* an attribute that is not there: reading it raises AttributeError
Absent == "ABSENT"
\* Python's None
Null == "NULL"

IDs == 1..NumIds
\* data.id of an event object that has no id attribute
NoId == 0

Chars == {" ", "/", "a"}

\* bool(v) of a string-or-None value
Truthy(v) == v /= Null /\ v /= ""

\* str(v)
Str(v) == IF v = Null THEN "None" ELSE v

\* getattr(obj, name, default) where attr is what obj holds under name
GetAttr(attr, default) == IF attr = Absent THEN default ELSE attr

\* `except Exception` catches every exception class below Exception;
\* asyncio.CancelledError derives from BaseException and passes through
IsException(exc) == exc \in {"AttributeError", "KeyError", "ApiError", "ConnectError", "PublishError"}

RECURSIVE LStrip(_)
\* s.lstrip()
LStrip(s) == IF s /= <<>> /\ Head(s) = " " THEN LStrip(Tail(s)) ELSE s

RECURSIVE RStrip(_)
\* s.rstrip()
RStrip(s) == IF s /= <<>> /\ s[Len(s)] = " " THEN RStrip(SubSeq(s, 1, Len(s) - 1)) ELSE s

\* a strip that leaves trailing whitespace
StripLeftOnly(s) == LStrip(s)

\* s.strip()
Strip(s) == RStrip(LStrip(s))

\* s.startswith("/")
StartsWithSlash(s) == s /= <<>> /\ Head(s) = "/"

\* ------------------------------------------------------------- the state
VARIABLES
    QQ_AVAILABLE,   \* module flag: the botpy import succeeded
    config,         \* QQConfig: [app_id, secret]
    running,        \* self._running
    client,         \* self._client: 0 is None, n > 0 the n-th client created
    bot_task,       \* self._bot_task: 0 is None, n > 0 the n-th task created
    processed_ids,  \* self._processed_ids, oldest first
    pc,             \* pc[t]: where the t-th _run_bot task is
    inflight,       \* callbacks suspended in `await self._handle_message(...)`
    last,           \* the last call made on the channel and what it did
    escaped,        \* calls out of which an exception propagated
    phase,          \* "new", then "started" / "stopped" by the last start()/stop()
    attempted,      \* some task has called client.start()
    lateAttempt,    \* some task called client.start() while phase = "stopped"
    recorded,       \* recorded[i]: id i was appended to the window at some time
    since,          \* since[i]: the other ids appended after i was last appended
    fate            \* fate[i]: what became of the event that last recorded id i,
                    \* for the ids i whose events are followed

vars == <<QQ_AVAILABLE, config, running, client, bot_task, processed_ids, pc,
          inflight, last, escaped, phase, attempted, lateAttempt, recorded, since, fate>>

Tasks == 1..MaxTasks

\* a task that has not finished
Live == {"created", "connecting", "ready", "backoff"}

\* the transport holds an established connection
Ready == \E t \in Tasks : pc[t] = "ready"

\* the ids whose events are followed through the bus publish
Followed == {i \in IDs : \A j \in IDs : i <= j}

\* QQChannel.__init__ (super().__init__ leaves _running False); the module
\* flag and the configuration are whatever the host has
Init ==
    /\ QQ_AVAILABLE \in BOOLEAN
    /\ config \in [app_id : {"", "app"}, secret : {"", "sec"}]
    /\ running = FALSE
    /\ client = 0
    /\ bot_task = 0
    /\ processed_ids = <<>>
    /\ pc = [t \in Tasks |-> "none"]
    /\ inflight = 0
    /\ last = [op |-> "init"]
    /\ escaped = {}
    /\ phase = "new"
    /\ attempted = FALSE
    /\ lateAttempt = FALSE
    /\ recorded = [i \in IDs |-> FALSE]
    /\ since = [i \in IDs |-> {}]
    /\ fate = [i \in Followed |-> "none"]

\* ------------------------------------------------------------- lifecycle
\* a guard that forgets the secret
CanStartAppIdOnly == QQ_AVAILABLE /\ Truthy(config.app_id)

\* the guard of start(): SDK imported and both credentials set
CanStart == QQ_AVAILABLE /\ Truthy(config.app_id) /\ Truthy(config.secret)

\* index of the next task (and client) start() creates
NextTask == Cardinality({t \in Tasks : pc[t] /= "none"}) + 1

\* start()
Start ==
    /\ phase' = "started"
    /\ IF ~CanStart
       THEN /\ last' = [op |-> "start", ok |-> FALSE]
            /\ UNCHANGED <<running, client, bot_task, pc>>
       ELSE /\ NextTask \in Tasks
            /\ running' = TRUE
            /\ client' = NextTask
            /\ bot_task' = NextTask
            /\ pc' = [pc EXCEPT ![NextTask] = "created"]
            /\ last' = [op |-> "start", ok |-> TRUE]
    /\ UNCHANGED <<QQ_AVAILABLE, config, processed_ids, inflight, escaped,
                   attempted, lateAttempt, recorded, since, fate>>

\* a loop test that ends the loop whatever the run flag says
LoopTestExits(run) == "done"

\* the `while self._running` test of _run_bot: another client.start(), or exit
LoopTest(run) == IF run THEN "connecting" ELSE "done"

\* a loop without the except clause: the error ends the task
AfterAttemptUncaught(exc, run) ==
    IF exc /= "none" THEN "failed"
    ELSE IF run THEN "backoff"
    ELSE LoopTest(run)

\* what follows `await self._client.start(...)` ending with exc ("none": it
\* returned): the except clause, the `if self._running` sleep, the loop test
AfterAttempt(exc, run) ==
    IF exc /= "none" /\ ~IsException(exc) THEN "failed"
    ELSE IF run THEN "backoff"
    ELSE LoopTest(run)

\* a task enters client.start()
NoteAttempt(to) ==
    /\ attempted' = (attempted \/ to = "connecting")
    /\ lateAttempt' = (lateAttempt \/ (to = "connecting" /\ phase = "stopped"))

\* the task's first step: the loop test, then client.start()
TaskBegin(t) ==
    /\ pc[t] = "created"
    /\ pc' = [pc EXCEPT ![t] = LoopTest(running)]
    /\ NoteAttempt(LoopTest(running))
    /\ UNCHANGED <<QQ_AVAILABLE, config, running, client, bot_task, processed_ids,
                   inflight, last, escaped, phase, recorded, since, fate>>

\* the transport reports readiness (on_ready) inside client.start()
ConnectReady(t) ==
    /\ pc[t] = "connecting"
    /\ pc' = [pc EXCEPT ![t] = "ready"]
    /\ UNCHANGED <<QQ_AVAILABLE, config, running, client, bot_task, processed_ids,
                   inflight, last, escaped, phase, attempted, lateAttempt, recorded, since, fate>>

\* client.start() raises
ConnectError(t) ==
    /\ pc[t] \in {"connecting", "ready"}
    /\ pc' = [pc EXCEPT ![t] = AfterAttempt("ConnectError", running)]
    /\ UNCHANGED <<QQ_AVAILABLE, config, running, client, bot_task, processed_ids,
                   inflight, last, escaped, phase, attempted, lateAttempt, recorded, since, fate>>

\* client.start() returns: the connection was closed
ConnectReturn(t) ==
    /\ pc[t] \in {"connecting", "ready"}
    /\ pc' = [pc EXCEPT ![t] = AfterAttempt("none", running)]
    /\ UNCHANGED <<QQ_AVAILABLE, config, running, client, bot_task, processed_ids,
                   inflight, last, escaped, phase, attempted, lateAttempt, recorded, since, fate>>

\* asyncio.sleep(5) is over: the loop test, then client.start() again
BackoffWake(t) ==
    /\ pc[t] = "backoff"
    /\ pc' = [pc EXCEPT ![t] = LoopTest(running)]
    /\ NoteAttempt(LoopTest(running))
    /\ UNCHANGED <<QQ_AVAILABLE, config, running, client, bot_task, processed_ids,
                   inflight, last, escaped, phase, recorded, since, fate>>

\* task.cancel(): CancelledError is thrown into a live task at its await
Cancel(p) == IF p \in Live THEN "cancelled" ELSE p

\* `await self._bot_task` on a finished task: what it raises
AwaitTask(p) ==
    CASE p = "cancelled" -> "CancelledError"
      [] p = "failed"    -> "ConnectError"
      [] OTHER           -> "none"

\* `except asyncio.CancelledError: pass`
StopSuppresses(exc) == exc = "CancelledError"

\* stop()
Stop ==
    /\ running' = FALSE
    /\ phase' = "stopped"
    /\ IF bot_task = 0
       THEN /\ UNCHANGED <<pc, escaped>>
            /\ last' = [op |-> "stop", awaited |-> "none", again |-> (phase = "stopped"),
                         fresh |-> (phase = "new")]
       ELSE LET p == Cancel(pc[bot_task])
                exc == AwaitTask(p)
            IN /\ pc' = [pc EXCEPT ![bot_task] = p]
               /\ escaped' = IF exc /= "none" /\ ~StopSuppresses(exc)
                             THEN escaped \cup {"stop"} ELSE escaped
               /\ last' = [op |-> "stop", awaited |-> exc, again |-> (phase = "stopped"),
                            fresh |-> (phase = "new")]
    /\ UNCHANGED <<QQ_AVAILABLE, config, client, bot_task, processed_ids, inflight,
                   attempted, lateAttempt, recorded, since, fate>>

\* ---------------------------------------------------------------- inbound
\* all strings of at most n characters
RECURSIVE StringsUpTo(_)
StringsUpTo(n) ==
    IF n = 0 THEN {<<>>}
    ELSE LET shorter == StringsUpTo(n - 1)
         IN shorter \cup {Append(s, c) : s \in {x \in shorter : Len(x) = n - 1}, c \in Chars}

\* data.content: a string, None, or no such attribute
Contents ==
    [k : {"str"}, v : StringsUpTo(MaxLen)] \cup {[k |-> Null, v |-> <<>>], [k |-> Absent, v |-> <<>>]}

\* a C2C / direct event as botpy delivers it
WellFormedDirect(i, c) ==
    [kind |-> "direct", id |-> i, content |-> c, author |-> "obj",
     author_id |-> "u1", user_openid |-> "o1", group_openid |-> Absent, member_openid |-> Absent]

\* a group @-mention event as botpy delivers it
WellFormedGroup(i, c) ==
    [kind |-> "group", id |-> i, content |-> c, author |-> "obj",
     author_id |-> Absent, user_openid |-> Absent, group_openid |-> "g1", member_openid |-> "m1"]

PlainContent == [k |-> "str", v |-> <<"a">>]

EmptyContent == [k |-> "str", v |-> <<>>]

\* the direct events the transport delivers: on every id plain content, empty
\* content and an author read that raises; on the first id every content and
\* every shape of the author; and an event without an id
DirectEvents ==
    {WellFormedDirect(i, c) : i \in IDs, c \in {PlainContent, EmptyContent}}
    \cup {[WellFormedDirect(i, PlainContent) EXCEPT !.author = Absent] : i \in IDs}
    \cup {WellFormedDirect(1, c) : c \in Contents}
    \cup {[WellFormedDirect(1, PlainContent) EXCEPT !.author_id = a, !.user_openid = o] :
            a \in {Absent, Null, "", "u1", "u2"}, o \in {Absent, Null, "o1"}}
    \cup {[WellFormedDirect(1, PlainContent) EXCEPT !.author = Null]}
    \cup {WellFormedDirect(NoId, PlainContent)}

\* the group events the transport delivers, chosen the same way
GroupEvents ==
    {WellFormedGroup(i, c) : i \in IDs, c \in {PlainContent, EmptyContent}}
    \cup {[WellFormedGroup(i, PlainContent) EXCEPT !.author = Absent] : i \in IDs}
    \cup {WellFormedGroup(1, c) : c \in Contents}
    \cup {[WellFormedGroup(1, PlainContent) EXCEPT !.group_openid = g, !.member_openid = m] :
            g \in {Absent, "g1"}, m \in {Absent, "m1"}}
    \cup {[WellFormedGroup(1, PlainContent) EXCEPT !.author = Null]}
    \cup {WellFormedGroup(NoId, PlainContent)}

\* a membership test that looks at the oldest id only
ContainsOldestOnly(ids, x) == ids /= <<>> /\ ids[1] = x

\* a membership test that never finds the id
ContainsNever(ids, x) == FALSE

\* `x in self._processed_ids`
Contains(ids, x) == \E k \in 1..Len(ids) : ids[k] = x

\* an append to a deque without maxlen
DequeAppendUnbounded(ids, x) == Append(ids, x)

\* an append that makes room by dropping the newest id instead of the oldest
DequeAppendDropsNewest(ids, x) ==
    IF Len(ids) >= DedupCapacity
    THEN Append(SubSeq(ids, 1, DedupCapacity - 1), x)
    ELSE Append(ids, x)

\* deque(maxlen=DedupCapacity).append(x)
DequeAppend(ids, x) ==
    IF Len(ids) >= DedupCapacity
    THEN Append(SubSeq(ids, Len(ids) - DedupCapacity + 2, Len(ids)), x)
    ELSE Append(ids, x)

\* an attribute of data.author; None has none of them
AuthorAttr(data, name) == IF data.author = Null THEN Absent ELSE data[name]

\* (data.content or "").strip()
ContentOf(data) == IF data.content.k = Null THEN <<>> ELSE Strip(data.content.v)

\* how a callback body ends: the window it leaves, the _handle_message calls it
\* made, and the exception it raised ("none": it returned)
Outcome(ids, pubs, exc) == [ids |-> ids, pubs |-> pubs, exc |-> exc]

\* the sender of a direct event
UserId(data) ==
    Str(IF Truthy(GetAttr(AuthorAttr(data, "author_id"), Null))
        THEN AuthorAttr(data, "author_id")
        ELSE GetAttr(AuthorAttr(data, "user_openid"), "unknown"))

\* a body that records the id only when it is about to publish
DirectBodyRecordsLate(data, ids) ==
    IF data.id = NoId THEN Outcome(ids, <<>>, "AttributeError")
    ELSE IF Contains(ids, data.id) THEN Outcome(ids, <<>>, "none")
    ELSE IF data.author = Absent \/ data.content.k = Absent
         THEN Outcome(ids, <<>>, "AttributeError")
    ELSE IF ContentOf(data) = <<>> THEN Outcome(ids, <<>>, "none")
    ELSE Outcome(DequeAppend(ids, data.id),
                 <<[sender_id |-> UserId(data), chat_id |-> UserId(data),
                    content |-> ContentOf(data),
                    metadata |-> [message_id |-> data.id]]>>,
                 "none")

\* the try block of _on_message
DirectBody(data, ids) ==
    IF data.id = NoId THEN Outcome(ids, <<>>, "AttributeError")
    ELSE IF Contains(ids, data.id) THEN Outcome(ids, <<>>, "none")
    ELSE LET ids1 == DequeAppend(ids, data.id) IN
    IF data.author = Absent THEN Outcome(ids1, <<>>, "AttributeError")
    ELSE IF data.content.k = Absent THEN Outcome(ids1, <<>>, "AttributeError")
    ELSE IF ContentOf(data) = <<>> THEN Outcome(ids1, <<>>, "none")
    ELSE Outcome(ids1,
                 <<[sender_id |-> UserId(data), chat_id |-> UserId(data),
                    content |-> ContentOf(data),
                    metadata |-> [message_id |-> data.id]]>>,
                 "none")

\* a normalisation that removes a second leading "/" as well
GroupContentStripsTwo(data) ==
    LET c == ContentOf(data)
        d == IF StartsWithSlash(c) THEN Strip(Tail(c)) ELSE c
    IN Strip(IF StartsWithSlash(d) THEN Strip(Tail(d)) ELSE d)

\* the content of a group event with the leading mention marker removed
GroupContent(data) ==
    LET c == ContentOf(data)
    IN Strip(IF StartsWithSlash(c) THEN Strip(Tail(c)) ELSE c)

\* the try block of _on_group_message
GroupBody(data, ids) ==
    IF data.id = NoId THEN Outcome(ids, <<>>, "AttributeError")
    ELSE IF Contains(ids, data.id) THEN Outcome(ids, <<>>, "none")
    ELSE LET ids1 == DequeAppend(ids, data.id) IN
    IF data.group_openid = Absent THEN Outcome(ids1, <<>>, "AttributeError")
    ELSE IF data.author \in {Absent, Null} \/ data.member_openid = Absent
         THEN Outcome(ids1, <<>>, "AttributeError")
    ELSE IF data.content.k = Absent THEN Outcome(ids1, <<>>, "AttributeError")
    ELSE IF GroupContent(data) = <<>> THEN Outcome(ids1, <<>>, "none")
    ELSE Outcome(ids1,
                 <<[sender_id |-> data.member_openid, chat_id |-> data.group_openid,
                    content |-> GroupContent(data),
                    metadata |-> [msg_type |-> "group",
                                  group_openid |-> data.group_openid,
                                  message_id |-> data.id]]>>,
                 "none")

\* callbacks without an except clause
CallbackCatchesNothing(exc) == FALSE

\* the `except Exception` clause of the two callbacks
CallbackCatches(exc) == IsException(exc)

\* the history of the window after a callback: id x was appended or not
NoteRecorded(x, appended) ==
    IF appended
    THEN /\ recorded' = [recorded EXCEPT ![x] = TRUE]
         /\ since' = [i \in IDs |-> IF i = x THEN {}
                                     ELSE IF recorded[i] THEN since[i] \cup {x}
                                     ELSE since[i]]
    ELSE UNCHANGED <<recorded, since>>

\* what becomes of the event that recorded id x: suspended in the bus publish,
\* dropped by an exception, or dropped for its empty content
NoteFate(x, appended, r) ==
    fate' = IF ~appended \/ x \notin DOMAIN fate THEN fate
            ELSE [fate EXCEPT ![x] = IF r.pubs /= <<>> THEN "publishing"
                                     ELSE IF r.exc /= "none" THEN "raised"
                                     ELSE "empty"]

\* a callback runs up to its first suspension (the bus publish) or its end
Callback(data, r) ==
    /\ Ready
    /\ inflight + Len(r.pubs) <= MaxInFlight
    /\ processed_ids' = r.ids
    /\ inflight' = inflight + Len(r.pubs)
    /\ escaped' = IF r.exc /= "none" /\ ~CallbackCatches(r.exc)
                  THEN escaped \cup {data.kind} ELSE escaped
    /\ last' = [op |-> data.kind, ev |-> data, pubs |-> r.pubs,
                appended |-> r.ids /= processed_ids,
                present |-> (\E k \in 1..Len(processed_ids) : processed_ids[k] = data.id),
                known |-> (data.id \in IDs /\ recorded[data.id]),
                others |-> IF data.id \in IDs THEN Cardinality(since[data.id]) ELSE 0,
                exc |-> r.exc,
                before |-> IF data.id \in DOMAIN fate THEN fate[data.id] ELSE "none"]
    /\ NoteRecorded(data.id, r.ids /= processed_ids)
    /\ NoteFate(data.id, r.ids /= processed_ids, r)
    /\ UNCHANGED <<QQ_AVAILABLE, config, running, client, bot_task, pc, phase,
                   attempted, lateAttempt>>

\* _on_message(data)
OnMessage(data) == Callback(data, DirectBody(data, processed_ids))

\* _on_group_message(data)
OnGroupMessage(data) == Callback(data, GroupBody(data, processed_ids))

\* the ids whose bus publish is in flight
Publishing == {i \in DOMAIN fate : fate[i] = "publishing"}

\* `await self._handle_message(...)` ends with exc ("none": it returned), for
\* the event of one of the ids in flight, or for an event whose id was
\* recorded again since
PublishDone(exc) ==
    /\ inflight > 0
    /\ inflight' = inflight - 1
    /\ \E i \in Publishing \cup (IF Cardinality(Publishing) < inflight THEN {NoId} ELSE {}) :
          fate' = IF i = NoId THEN fate
                  ELSE [fate EXCEPT ![i] = IF exc = "none" THEN "published" ELSE "failed"]
    /\ escaped' = IF exc /= "none" /\ ~CallbackCatches(exc)
                  THEN escaped \cup {"publish"} ELSE escaped
    /\ UNCHANGED <<QQ_AVAILABLE, config, running, client, bot_task, processed_ids, pc,
                   last, phase, attempted, lateAttempt, recorded, since>>

\* the events of the lifecycle specifications, on two ids: plain and empty
\* content, an author read that raises, and an event without an id
CoreDirectEvents ==
    {WellFormedDirect(i, c) : i \in {1, 2}, c \in {PlainContent, EmptyContent}}
    \cup {[WellFormedDirect(i, PlainContent) EXCEPT !.author = Absent] : i \in {1, 2}}
    \cup {WellFormedDirect(NoId, PlainContent)}

CoreGroupEvents ==
    {WellFormedGroup(i, c) : i \in {1, 2}, c \in {PlainContent, EmptyContent}}
    \cup {[WellFormedGroup(i, PlainContent) EXCEPT !.author = Absent] : i \in {1, 2}}
    \cup {WellFormedGroup(NoId, PlainContent)}

\* --------------------------------------------------------------- outbound
\* msg.metadata: None, or a dict whose keys may each be missing
Metadatas ==
    {[k |-> Null, msg_type |-> Absent, group_openid |-> Absent, message_id |-> Absent]}
    \cup [k : {"dict"}, msg_type : {Absent, "group", "c2c"},
          group_openid : {Absent, "g1"}, message_id : {Absent, "r1"}]

\* the OutboundMessages the bus hands to send(): every metadata for one chat,
\* and a second chat without metadata and with a group target
OutboundMessages ==
    [chat_id : {"u1"}, content : {"hi"}, metadata : Metadatas]
    \cup [chat_id : {"u2"}, content : {"hi"},
          metadata : {m \in Metadatas : m.k = Null \/ (m.msg_type = "group" /\ m.message_id = "r1")}]

\* dict.get(key) of `msg.metadata or {}`
MetaGet(msg, key) ==
    IF msg.metadata.k = Null \/ msg.metadata[key] = Absent THEN Null ELSE msg.metadata[key]

\* a branch test that looks for a group id instead of the message type
IsGroupTargetByGroupId(msg) == MetaGet(msg, "group_openid") /= Null

\* the branch test of send(): metadata.get("msg_type") == "group"
IsGroupTarget(msg) == MetaGet(msg, "msg_type") = "group"

\* how send() ends: the platform API calls it made and the exception it raised
Sent(calls, exc) == [calls |-> calls, exc |-> exc]

\* the body of send() with client cl, when the API call it makes ends as result
SendBody(msg, cl, result) ==
    IF cl = 0 THEN Sent(<<>>, "none")
    ELSE IF IsGroupTarget(msg)
    THEN IF msg.metadata.group_openid = Absent THEN Sent(<<>>, "KeyError")
         ELSE Sent(<<[api |-> "post_group_message",
                      target |-> msg.metadata.group_openid,
                      content |-> msg.content,
                      msg_id |-> MetaGet(msg, "message_id")]>>,
                   IF result = "ack" THEN "none" ELSE "ApiError")
    ELSE Sent(<<[api |-> "post_c2c_message",
                 target |-> msg.chat_id,
                 content |-> msg.content,
                 msg_id |-> Null]>>,
              IF result = "ack" THEN "none" ELSE "ApiError")

\* an except clause that names KeyError only
SendCatchesKeyErrorOnly(exc) == exc = "KeyError"

\* the `except Exception` clause of send()
SendCatches(exc) == IsException(exc)

\* send(msg)
Send(msg, result) ==
    LET r == SendBody(msg, client, result)
    IN /\ last' = [op |-> "send", msg |-> msg, result |-> result, ready |-> Ready,
                   calls |-> r.calls]
       /\ escaped' = IF r.exc /= "none" /\ ~SendCatches(r.exc)
                     THEN escaped \cup {"send"} ELSE escaped
       /\ UNCHANGED <<QQ_AVAILABLE, config, running, client, bot_task, processed_ids, pc,
                      inflight, phase, attempted, lateAttempt, recorded, since, fate>>

\* the messages of the lifecycle specifications: a direct message without
\* metadata, a group reply, and a group message without its group id
CoreMessages ==
    {msg \in OutboundMessages :
        /\ msg.chat_id = "u1"
        /\ \/ msg.metadata.k = Null
           \/ msg.metadata.msg_type = "group" /\ msg.metadata.message_id = "r1"}

\* ------------------------------------------------- the configuration loader
\* (src/nanobot/config/loader.py) Strings are sequences of characters, so that
\* lower(), startswith() and split() are computed and not assumed.
UpperLetters == <<"A", "B", "C", "D", "E", "F", "G", "H", "I", "J", "K", "L", "M", "N", "O", "P", "Q", "R", "S", "T", "U", "V", "W", "X", "Y", "Z">>

LowerLetters == <<"a", "b", "c", "d", "e", "f", "g", "h", "i", "j", "k", "l", "m", "n", "o", "p", "q", "r", "s", "t", "u", "v", "w", "x", "y", "z">>

\* c.lower() of one character
LowerChar(c) ==
    IF \E i \in 1..Len(UpperLetters) : UpperLetters[i] = c
    THEN LowerLetters[CHOOSE i \in 1..Len(UpperLetters) : UpperLetters[i] = c]
    ELSE c

\* c.upper() of one character
UpperChar(c) ==
    IF \E i \in 1..Len(LowerLetters) : LowerLetters[i] = c
    THEN UpperLetters[CHOOSE i \in 1..Len(LowerLetters) : LowerLetters[i] = c]
    ELSE c

\* s.lower()
Lower(s) == [i \in 1..Len(s) |-> LowerChar(s[i])]

\* ENV_PREFIX
ENV_PREFIX == <<"N", "A", "N", "O", "B", "O", "T", "_">>

\* ENV_DELIMITER
ENV_DELIMITER == <<"_", "_">>

\* s.startswith(prefix)
StartsWith(s, prefix) == Len(s) >= Len(prefix) /\ SubSeq(s, 1, Len(prefix)) = prefix

RECURSIVE Split(_)
\* s.split(ENV_DELIMITER): cut at each delimiter found from the left
Split(s) ==
    LET n == Len(ENV_DELIMITER)
        hits == {i \in 1..(Len(s) - n + 1) : SubSeq(s, i, i + n - 1) = ENV_DELIMITER}
    IN IF hits = {} THEN <<s>>
       ELSE LET i == CHOOSE h \in hits : \A g \in hits : h <= g
            IN <<SubSeq(s, 1, i - 1)>> \o Split(SubSeq(s, i + n, Len(s)))

\* the key names of the configuration used below, as the file writes them
Gateway == <<"g", "a", "t", "e", "w", "a", "y">>

Port == <<"p", "o", "r", "t">>

Host == <<"h", "o", "s", "t">>

Tools == <<"t", "o", "o", "l", "s">>

Exec == <<"e", "x", "e", "c">>

RestrictToWorkspace == <<"r", "e", "s", "t", "r", "i", "c", "t", "T", "o", "W", "o", "r", "k", "s", "p", "a", "c", "e">>

\* a JSON / Python value: k is its type, v its text (a scalar), d its entries
\* (a dict: a set of <<key, value>> pairs with distinct keys)
Scalar(k, v) == [k |-> k, v |-> v, d |-> {}]

DictNode(d) == [k |-> "dict", v |-> <<>>, d |-> d]

\* isinstance(node, dict)
IsDict(node) == node.k = "dict"

\* d.keys()
Keys(d) == {e[1] : e \in d}

\* d[key]
Get(d, key) == (CHOOSE e \in d : e[1] = key)[2]

\* d[key] = node
Put(d, key, node) == {e \in d : e[1] /= key} \cup {<<key, node>>}

\* d.pop(key)
Pop(d, key) == {e \in d : e[1] /= key}

Digits == {"0", "1", "2", "3", "4", "5", "6", "7", "8", "9"}

\* int(value) succeeds, for text without sign, blanks or underscores
IsInt(value) == value /= <<>> /\ \A i \in 1..Len(value) : value[i] \in Digits

\* float(value) succeeds, for text that is digits around one point
IsFloat(value) ==
    /\ \A i \in 1..Len(value) : value[i] \in Digits \cup {"."}
    /\ Cardinality({i \in 1..Len(value) : value[i] = "."}) <= 1
    /\ \E i \in 1..Len(value) : value[i] \in Digits

\* _parse_env_value (no value below begins with "[" or "{", so json.loads is
\* never tried and a value that is no boolean and no number stays a string)
ParseEnvValue(value) ==
    IF Lower(value) = <<"t", "r", "u", "e">> THEN Scalar("bool", <<"T", "r", "u", "e">>)
    ELSE IF Lower(value) = <<"f", "a", "l", "s", "e">> THEN Scalar("bool", <<"F", "a", "l", "s", "e">>)
    ELSE IF IsInt(value) THEN Scalar("int", value)
    ELSE IF IsFloat(value) THEN Scalar("float", value)
    ELSE Scalar("str", value)

RECURSIVE SetPath(_, _, _)
\* the inner loop of _get_env_overrides: setdefault(part, {}) along the path,
\* then the assignment of the last part (no path below runs through a scalar)
SetPath(d, path, node) ==
    IF Len(path) = 1 THEN Put(d, path[1], node)
    ELSE LET part == Head(path)
             child == IF part \in Keys(d) THEN Get(d, part) ELSE DictNode({})
         IN Put(d, part, DictNode(SetPath(child.d, Tail(path), node)))

\* key[len(ENV_PREFIX):].lower().split(ENV_DELIMITER)
EnvPath(name) == Split(Lower(SubSeq(name, Len(ENV_PREFIX) + 1, Len(name))))

RECURSIVE GetEnvOverridesFrom(_, _)
\* the loop of _get_env_overrides over os.environ.items(), result so far in d
GetEnvOverridesFrom(environ, d) ==
    IF environ = <<>> THEN d
    ELSE LET var == Head(environ)
         IN GetEnvOverridesFrom(Tail(environ),
                IF ~StartsWith(var.name, ENV_PREFIX) THEN d
                ELSE SetPath(d, EnvPath(var.name), ParseEnvValue(var.value)))

\* _get_env_overrides()
GetEnvOverrides(environ) == GetEnvOverridesFrom(environ, {})

RECURSIVE DeepMerge(_, _)
\* _deep_merge(base, override)
DeepMerge(base, override) ==
    {e \in base : e[1] \notin Keys(override)}
    \cup {<<e[1], IF e[1] \in Keys(base) /\ IsDict(Get(base, e[1])) /\ IsDict(e[2])
                  THEN DictNode(DeepMerge(Get(base, e[1]).d, e[2].d))
                  ELSE e[2]>> : e \in override}

\* _migrate_config(data): tools.exec.restrictToWorkspace moves up to tools
MigrateConfig(data) ==
    IF Tools \notin Keys(data) THEN data
    ELSE LET tools == Get(data, Tools).d
             exec_cfg == IF Exec \in Keys(tools) THEN Get(tools, Exec).d ELSE {}
         IN IF RestrictToWorkspace \in Keys(exec_cfg) /\ RestrictToWorkspace \notin Keys(tools)
            THEN Put(data, Tools,
                     DictNode(Put(Put(tools, Exec, DictNode(Pop(exec_cfg, RestrictToWorkspace))),
                                  RestrictToWorkspace, Get(exec_cfg, RestrictToWorkspace))))
            ELSE data

\* file_data of load_config: the migrated document, or {} when the file is
\* missing or is not JSON
FileData(file) == IF file.k = "json" THEN MigrateConfig(file.d) ELSE {}

\* the dict load_config hands to Config.model_validate
Merged(file, environ) == DeepMerge(FileData(file), GetEnvOverrides(environ))

\* the gateway sections of the config files: none, a port, a host, both
GatewaySections ==
    {{}} \cup {{<<Gateway, DictNode(g)>>} :
                 g \in {{<<Port, Scalar("int", <<"1">>)>>},
                        {<<Host, Scalar("str", <<"h">>)>>},
                        {<<Port, Scalar("int", <<"1">>)>>, <<Host, Scalar("str", <<"h">>)>>}}}

\* the tools sections: none, the flag, the flag at its legacy place, both
ToolsSections ==
    LET on == Scalar("bool", <<"T", "r", "u", "e">>)
        off == Scalar("bool", <<"F", "a", "l", "s", "e">>)
    IN {{}} \cup {{<<Tools, DictNode(t)>>} :
                    t \in {{<<RestrictToWorkspace, on>>},
                           {<<Exec, DictNode({<<RestrictToWorkspace, on>>})>>},
                           {<<RestrictToWorkspace, on>>,
                            <<Exec, DictNode({<<RestrictToWorkspace, off>>})>>}}}

\* the config file: a JSON document, no file, or a file that is not JSON
ConfigFiles ==
    {[k |-> "json", d |-> g \cup t] : g \in GatewaySections, t \in ToolsSections}
    \cup {[k |-> "missing", d |-> {}], [k |-> "malformed", d |-> {}]}

RECURSIVE Join(_)
\* ENV_DELIMITER.join(parts)
Join(parts) ==
    IF Len(parts) = 1 THEN parts[1]
    ELSE parts[1] \o ENV_DELIMITER \o Join(Tail(parts))

\* the name of the variable that overrides a key path: the prefix, then the
\* parts in upper case joined by the delimiter
EnvName(path) ==
    ENV_PREFIX \o Join([i \in 1..Len(path) |-> [j \in 1..Len(path[i]) |-> UpperChar(path[i][j])]])

\* the variables the environment may hold, in the order os.environ lists them:
\* overrides of the port, the host and the flag, and a variable of another
\* program
EnvCandidates ==
    <<[name |-> EnvName(<<Gateway, Port>>), value |-> <<"2">>],
      [name |-> EnvName(<<Gateway, Host>>), value |-> <<"x">>],
      [name |-> EnvName(<<Tools, RestrictToWorkspace>>), value |-> <<"f", "a", "l", "s", "e">>],
      [name |-> <<"P", "O", "R", "T">>, value |-> <<"3">>]>>

RECURSIVE SubSeqs(_)
\* every selection of the elements of a sequence, order kept
SubSeqs(q) ==
    IF q = <<>> THEN {<<>>}
    ELSE LET rest == SubSeqs(Tail(q))
         IN rest \cup {<<Head(q)>> \o r : r \in rest}

Environs == SubSeqs(EnvCandidates)

\* load_config(), up to the dict handed to validation
LoadConfig(file, environ) ==
    /\ last' = [op |-> "load_config", file |-> file, environ |-> environ,
                merged |-> Merged(file, environ)]
    /\ UNCHANGED <<QQ_AVAILABLE, config, running, client, bot_task, processed_ids, pc,
                   inflight, escaped, phase, attempted, lateAttempt, recorded, since, fate>>

Next ==
    \/ Start
    \/ Stop
    \/ \E t \in Tasks : TaskBegin(t)
    \/ \E t \in Tasks : ConnectReady(t)
    \/ \E t \in Tasks : ConnectError(t)
    \/ \E t \in Tasks : ConnectReturn(t)
    \/ \E t \in Tasks : BackoffWake(t)
    \/ \E data \in CoreDirectEvents : OnMessage(data)
    \/ \E data \in CoreGroupEvents : OnGroupMessage(data)
    \/ \E exc \in {"none", "PublishError"} : PublishDone(exc)
    \/ \E msg \in CoreMessages, result \in {"ack", "error"} : Send(msg, result)

\* the channel under start(), stop(), send() and the transport's callbacks
Spec == Init /\ [][Next]_vars

\* the channel under start(), stop() and the connection loop, with every
\* message of OutboundMessages sent in every state and one event delivered
NextOutbound ==
    \/ Start
    \/ Stop
    \/ \E t \in Tasks : TaskBegin(t)
    \/ \E t \in Tasks : ConnectReady(t)
    \/ \E t \in Tasks : ConnectError(t)
    \/ \E t \in Tasks : ConnectReturn(t)
    \/ \E t \in Tasks : BackoffWake(t)
    \/ OnMessage(WellFormedDirect(1, PlainContent))
    \/ \E exc \in {"none", "PublishError"} : PublishDone(exc)
    \/ \E msg \in OutboundMessages, result \in {"ack", "error"} : Send(msg, result)

SpecOutbound == Init /\ [][NextOutbound]_vars

\* the channel after start() and the transport's on_ready: the state Spec
\* reaches by Start, TaskBegin(1), ConnectReady(1)
Connected ==
    /\ QQ_AVAILABLE = TRUE
    /\ config = [app_id |-> "app", secret |-> "sec"]
    /\ running = TRUE
    /\ client = 1
    /\ bot_task = 1
    /\ processed_ids = <<>>
    /\ pc = [t \in Tasks |-> IF t = 1 THEN "ready" ELSE "none"]
    /\ inflight = 0
    /\ last = [op |-> "start", ok |-> TRUE]
    /\ escaped = {}
    /\ phase = "started"
    /\ attempted = TRUE
    /\ lateAttempt = FALSE
    /\ recorded = [i \in IDs |-> FALSE]
    /\ since = [i \in IDs |-> {}]

\* a connected channel, no event followed through its publish
InitConnected == Connected /\ fate = [i \in {} |-> "none"]

\* the two callbacks of a connected channel, under every event of DirectEvents
\* and GroupEvents
NextInbound ==
    \/ \E data \in DirectEvents : OnMessage(data)
    \/ \E data \in GroupEvents : OnGroupMessage(data)
    \/ \E exc \in {"none", "PublishError"} : PublishDone(exc)

SpecInbound == InitConnected /\ [][NextInbound]_vars

\* a connected channel whose events of the first id are followed
InitOverlap == Connected /\ fate = [i \in Followed |-> "none"]

\* the events of the overlap specification: on every id plain content, empty
\* content and an author read that raises
OverlapDirectEvents ==
    {WellFormedDirect(i, c) : i \in IDs, c \in {PlainContent, EmptyContent}}
    \cup {[WellFormedDirect(i, PlainContent) EXCEPT !.author = Absent] : i \in IDs}

OverlapGroupEvents ==
    {WellFormedGroup(i, c) : i \in IDs, c \in {PlainContent, EmptyContent}}
    \cup {[WellFormedGroup(i, PlainContent) EXCEPT !.author = Absent] : i \in IDs}

\* callbacks that start while earlier ones are suspended in the bus publish
NextOverlap ==
    \/ \E data \in OverlapDirectEvents : OnMessage(data)
    \/ \E data \in OverlapGroupEvents : OnGroupMessage(data)
    \/ \E exc \in {"none", "PublishError"} : PublishDone(exc)

SpecOverlap == InitOverlap /\ [][NextOverlap]_vars

\* the connection loop under the scheduler of the event loop: a created task
\* runs, a sleep ends, and a transport that is tried again and again connects
NextLive ==
    \/ Start
    \/ Stop
    \/ \E t \in Tasks : TaskBegin(t)
    \/ \E t \in Tasks : ConnectReady(t)
    \/ \E t \in Tasks : ConnectError(t)
    \/ \E t \in Tasks : ConnectReturn(t)
    \/ \E t \in Tasks : BackoffWake(t)
    \/ \E msg \in CoreMessages, result \in {"ack", "error"} : Send(msg, result)

LiveSpec ==
    /\ Init
    /\ [][NextLive]_vars
    /\ \A t \in Tasks : WF_vars(TaskBegin(t))
    /\ \A t \in Tasks : WF_vars(BackoffWake(t))
    /\ \A t \in Tasks : SF_vars(ConnectReady(t))

\* the process at start-up, before any channel is started
InitLoader ==
    /\ Init
    /\ QQ_AVAILABLE = TRUE
    /\ config = [app_id |-> "app", secret |-> "sec"]

\* load_config under every config file and environment above
NextLoader == \E file \in ConfigFiles, environ \in Environs : LoadConfig(file, environ)

SpecLoader == InitLoader /\ [][NextLoader]_vars

\* ----------------------------------------------------------------- claims
IsCallback == last.op \in {"direct", "group"}

\* an event with an id, a string content and the fields its callback reads
WellFormed(ev) ==
    /\ ev.id \in IDs
    /\ ev.content.k = "str"
    /\ ev.author = "obj"
    /\ ev.kind = "direct" => ev.author_id \in {"u1", "u2"}
    /\ ev.kind = "group" => ev.group_openid /= Absent /\ ev.member_openid /= Absent

\* every character of s is whitespace (the empty string included)
AllSpace(s) == \A k \in 1..Len(s) : s[k] = " "

\* s with its surrounding whitespace removed, as the longest infix that neither
\* starts nor ends with whitespace
Trimmed(s) ==
    IF AllSpace(s) THEN <<>>
    ELSE LET lo == CHOOSE a \in 1..Len(s) : s[a] /= " " /\ \A k \in 1..(a - 1) : s[k] = " "
             hi == CHOOSE b \in 1..Len(s) : s[b] /= " " /\ \A k \in (b + 1)..Len(s) : s[k] = " "
         IN SubSeq(s, lo, hi)

\* the content a callback publishes for raw content s
Normalized(kind, s) ==
    IF kind = "group" /\ Trimmed(s) /= <<>> /\ Trimmed(s)[1] = "/"
    THEN Trimmed(Tail(Trimmed(s)))
    ELSE Trimmed(s)

\* what C1 says of the last callback, for events whose content c is non-empty
C1Holds(c) ==
    IsCallback /\ WellFormed(last.ev) =>
        /\ ~last.present /\ c /= <<>> =>
              /\ Len(last.pubs) = 1
              /\ last.ev.kind = "direct" =>
                    last.pubs[1] = [sender_id |-> last.ev.author_id,
                                    chat_id |-> last.ev.author_id,
                                    content |-> Trimmed(last.ev.content.v),
                                    metadata |-> [message_id |-> last.ev.id]]
        /\ last.present => last.pubs = <<>>

\* C1 as stated: a well-formed event with non-empty trimmed content whose id is
\* not in the dedup window is published exactly once (a direct event with
\* sender_id = chat_id = author id, the trimmed content and {message_id: id}),
\* and an event whose id is in the window is not published.
C1_Original == C1Holds(IF IsCallback THEN Trimmed(last.ev.content.v) ELSE <<>>)

\* C1 (amended): the same, for events whose normalized content is non-empty:
\* the trimmed content, and for a group event the trimmed content with one
\* leading "/" removed and trimmed again.
C1_Amended ==
    C1Holds(IF IsCallback THEN Normalized(last.ev.kind, last.ev.content.v) ELSE <<>>)

\* a direct event is redelivered while its id is in the window
C1_Witness ==
    /\ last.op = "direct" /\ WellFormed(last.ev) /\ last.present
    /\ Trimmed(last.ev.content.v) /= <<>>
    /\ inflight = 1

\* C2: a delivery of an id that was recorded before is rejected while fewer than
\* DedupCapacity other distinct ids were recorded since, and accepted as new
\* once DedupCapacity others were; the window holds exactly the remembered ids.
C2_DedupWindow ==
    /\ IsCallback /\ last.ev.id \in IDs /\ last.known =>
          (last.appended <=> last.others >= DedupCapacity)
    /\ \A i \in IDs : recorded[i] =>
          ((\E k \in 1..Len(processed_ids) : processed_ids[k] = i)
              <=> Cardinality(since[i]) < DedupCapacity)

\* an id recorded before is accepted again after DedupCapacity others
C2_Witness ==
    IsCallback /\ last.ev.id \in IDs /\ last.known /\ last.appended
        /\ last.others >= DedupCapacity

\* C3: once stop() has returned and until start() is called again, every task
\* the channel created has terminated and no task calls client.start().
C3_StopUnwindsAll ==
    phase = "stopped" => (\A t \in Tasks : pc[t] \notin Live) /\ ~lateAttempt

\* C4: stop() called twice in a row, or on a channel never started, does not
\* raise and leaves the run flag inactive and no connection task alive.
C4_StopIdempotent ==
    last.op = "stop" /\ (last.again \/ last.fresh) =>
        /\ "stop" \notin escaped
        /\ ~running
        /\ \A t \in Tasks : pc[t] \notin Live

\* C5: send() while the connection is not Ready makes no platform API call.
C5_NoSendUnlessReady ==
    last.op = "send" /\ ~last.ready => last.calls = <<>>

\* C6: with the connection Ready, a message whose metadata says "group" and
\* carries a group id makes exactly one group-send call with that group id and
\* the metadata message id as reply-to; a message without the discriminator
\* makes exactly one direct-send call addressed to chat_id.
C6_OutboundRouting ==
    last.op = "send" /\ last.ready =>
        LET m == last.msg.metadata
            group == m.k = "dict" /\ m.msg_type = "group"
        IN /\ group /\ m.group_openid /= Absent =>
                 last.calls = <<[api |-> "post_group_message",
                                 target |-> m.group_openid,
                                 content |-> last.msg.content,
                                 msg_id |-> IF m.message_id = Absent THEN Null
                                            ELSE m.message_id]>>
           /\ ~group =>
                 /\ Len(last.calls) = 1
                 /\ last.calls[1].api = "post_c2c_message"
                 /\ last.calls[1].target = last.msg.chat_id

\* a group message with a reply-to id is sent on a Ready connection
C6_Witness ==
    /\ last.op = "send" /\ last.ready
    /\ last.msg.metadata.msg_type = "group"
    /\ last.msg.metadata.message_id = "r1"
    /\ Len(last.calls) = 1

\* C7: send() never raises, makes at most one API call, and leaves the run
\* flag, the connection task and the dedup window as they were.
C7_SendContained ==
    [][last'.op = "send" /\ last' /= last =>
          /\ "send" \notin escaped'
          /\ Len(last'.calls) <= 1
          /\ UNCHANGED <<running, bot_task, pc, processed_ids>>]_vars

\* the platform API call of a send() failed, with ids in the window
C7_Witness ==
    /\ last.op = "send" /\ last.result = "error" /\ Len(last.calls) = 1
    /\ processed_ids /= <<>>

\* C8: without the SDK, an app_id or a secret, start() leaves the channel
\* Stopped: run flag inactive, no client, no task, no connection attempt.
C8_StartFailsSoft ==
    ~QQ_AVAILABLE \/ config.app_id = "" \/ config.secret = "" =>
        /\ ~running
        /\ client = 0
        /\ bot_task = 0
        /\ \A t \in Tasks : pc[t] = "none"
        /\ ~attempted
        /\ "start" \notin escaped

\* start() was called with the SDK and an app_id but no secret
C8_Witness ==
    last.op = "start" /\ QQ_AVAILABLE /\ config.app_id /= "" /\ config.secret = ""

\* C9: no connect error ends a connection loop; while the run flag stays
\* active a loop in backoff tries to connect again, and a loop that is
\* connecting becomes Ready.
C9_Reconnects ==
    \A t \in Tasks :
        /\ [](pc[t] /= "failed")
        /\ (pc[t] = "backoff") ~> (pc[t] = "connecting" \/ ~running)
        /\ (pc[t] = "connecting") ~> (pc[t] = "ready" \/ ~running)

\* a loop sleeps in backoff after a failed attempt
C9_Witness == \E t \in Tasks : pc[t] = "backoff" /\ running

\* content that is absent, None, empty or whitespace only, and for a group
\* event also a leading "/" followed by whitespace only
NothingToSay(kind, raw) ==
    \/ raw.k /= "str"
    \/ AllSpace(raw.v)
    \/ kind = "group" /\ raw.v /= <<>> /\ raw.v[1] = "/" /\ AllSpace(Tail(raw.v))

\* C10: published content is non-empty and has no leading or trailing
\* whitespace; an event whose content is absent, None, empty or whitespace
\* only (for a group event also "/" followed by whitespace only) is not
\* published.
C10_ContentTrimmed ==
    IsCallback =>
        /\ \A k \in 1..Len(last.pubs) :
              LET c == last.pubs[k].content
              IN c /= <<>> /\ c[1] /= " " /\ c[Len(c)] /= " "
        /\ NothingToSay(last.ev.kind, last.ev.content) => last.pubs = <<>>

\* a group event whose content is "/" and a space was delivered as new
C10_Witness ==
    /\ last.op = "group" /\ WellFormed(last.ev) /\ last.appended
    /\ last.ev.content.v = <<"/", " ">>

\* C11: a published group event carries the member id as sender, the group id
\* as chat target, metadata {msg_type: group, group id, message id} and the
\* content trimmed, with one leading "/" removed and trimmed again; content
\* without a leading "/" is published as its trimmed self, and a second
\* leading "/" is kept. A new well-formed group event with such non-empty
\* content is published.
C11_GroupNormalized ==
    last.op = "group" =>
        LET ev == last.ev
            t == Trimmed(ev.content.v)
        IN /\ WellFormed(ev) /\ ~last.present /\ Normalized("group", ev.content.v) /= <<>>
                 => Len(last.pubs) = 1
           /\ \A k \in 1..Len(last.pubs) :
                 /\ last.pubs[k] = [sender_id |-> ev.member_openid,
                                    chat_id |-> ev.group_openid,
                                    content |-> Normalized("group", ev.content.v),
                                    metadata |-> [msg_type |-> "group",
                                                  group_openid |-> ev.group_openid,
                                                  message_id |-> ev.id]]
                 /\ t[1] /= "/" => last.pubs[k].content = t
                 /\ Len(t) >= 2 /\ t[1] = "/" /\ t[2] = "/" => last.pubs[k].content[1] = "/"

\* a group event whose content is "//" was published as "/"
C11_Witness ==
    /\ last.op = "group" /\ last.ev.content.v = <<"/", "/">>
    /\ Len(last.pubs) = 1 /\ last.pubs[1].content = <<"/">>
    /\ last.pubs[1].sender_id = "m1" /\ last.pubs[1].chat_id = "g1"

\* the value a dict holds at a key path: {} when there is none
RECURSIVE ValueAt(_, _)
ValueAt(d, path) ==
    IF Head(path) \notin {e[1] : e \in d} THEN {}
    ELSE LET node == (CHOOSE e \in d : e[1] = Head(path))[2]
         IN IF Len(path) = 1 THEN {node}
            ELSE IF node.k = "dict" THEN ValueAt(node.d, Tail(path))
            ELSE {}

\* the values the environment gives for a key path
EnvValuesAt(environ, path) ==
    {ParseEnvValue(environ[i].value) : i \in {j \in 1..Len(environ) : environ[j].name = EnvName(path)}}

\* the key paths a config file can contain, as the file writes them
KeyPaths ==
    {<<Gateway, Port>>, <<Gateway, Host>>, <<Tools, RestrictToWorkspace>>,
     <<Tools, Exec, RestrictToWorkspace>>}

\* what C12 says of one key path
LayeredAt(path) ==
    last.op = "load_config" =>
        ValueAt(last.merged, path) =
            IF EnvValuesAt(last.environ, path) /= {} THEN EnvValuesAt(last.environ, path)
            ELSE ValueAt(FileData(last.file), path)

\* C12: at every key path the merged configuration holds the environment's
\* value if the environment defines the path, else the (migrated) file's value
\* if the file defines it, else nothing; keys the file writes in mixed case
\* included.
C12_EnvOverFileOverDefault == \A path \in KeyPaths : LayeredAt(path)

\* C13: a connection loop leaves the set of live tasks only in a step after
\* which the run flag is inactive and the last of start() / stop() was stop(),
\* whatever connect errors, disconnects and backoff sleeps came before.
C13_LoopExitsOnlyWhenStopped ==
    [][\A t \in Tasks :
          pc[t] \in Live /\ pc'[t] \notin Live => ~running' /\ phase' = "stopped"]_vars

\* after stop() one loop was cancelled at its await and another left through
\* its loop test
C13_Witness ==
    /\ ~running /\ phase = "stopped" /\ attempted
    /\ \E t, u \in Tasks : pc[t] = "cancelled" /\ pc[u] = "done"

\* C14: at most one connection loop is alive at any time.
C14_SingleLoop == Cardinality({t \in Tasks : pc[t] \in Live}) <= 1

\* C15: when stop() has returned the dedup window holds no event id.
C15_WindowDiscardedAtStop == last.op = "stop" => processed_ids = <<>>

\* the ids in the window
InWindow(ids) == {ids[k] : k \in 1..Len(ids)}

\* C16: the window never holds more than DedupCapacity ids, and a step that
\* records an id into a window of DedupCapacity ids removes the id recorded
\* earliest (the one with the most ids recorded after it) and no other; into a
\* smaller window it removes none.
C16_BoundedFifo ==
    [][/\ Len(processed_ids') <= DedupCapacity
       /\ Cardinality(InWindow(processed_ids')) = Len(processed_ids')
       /\ processed_ids' /= processed_ids =>
             LET x == last'.ev.id
                 old == InWindow(processed_ids)
                 gone == old \ InWindow(processed_ids')
             IN /\ InWindow(processed_ids') \ old = {x}
                /\ IF Len(processed_ids) < DedupCapacity THEN gone = {}
                   ELSE /\ Cardinality(gone) = 1
                        /\ \A e \in gone, j \in old :
                              Cardinality(since[j]) <= Cardinality(since[e])]_vars

\* more ids than the window holds were recorded, the last one into a full
\* window
C16_Witness ==
    /\ IsCallback /\ last.appended
    /\ Len(processed_ids) = DedupCapacity
    /\ Cardinality({i \in IDs : recorded[i]}) > DedupCapacity

\* C17: a callback in which a field read raises publishes nothing, lets no
\* exception out and leaves the run flag, the client and the connection tasks
\* as they were; and after such an event a new well-formed event with another
\* id and with content is published.
C17_MalformedDropped ==
    /\ [][IsCallback' /\ last' /= last /\ last'.exc /= "none" =>
             /\ last'.pubs = <<>>
             /\ inflight' = inflight
             /\ escaped' = escaped
             /\ UNCHANGED <<running, client, bot_task, pc>>]_vars
    /\ [](IsCallback /\ WellFormed(last.ev) /\ ~last.present
             /\ Normalized(last.ev.kind, last.ev.content.v) /= <<>>
             /\ (\E j \in DOMAIN fate : j /= last.ev.id /\ fate[j] = "raised")
          => Len(last.pubs) = 1)

\* after an event of another id was dropped by an exception, a well-formed
\* event was published
C17_Witness ==
    /\ IsCallback /\ WellFormed(last.ev) /\ Len(last.pubs) = 1
    /\ \E j \in DOMAIN fate : j /= last.ev.id /\ fate[j] = "raised"
    /\ escaped = {}

\* an attribute that carries a value
HasValue(v) == v \notin {Absent, Null, ""}

\* the sender C18 names for a direct event
ExpectedSender(ev) ==
    IF ev.author /= "obj" THEN "unknown"
    ELSE IF HasValue(ev.author_id) THEN ev.author_id
    ELSE IF HasValue(ev.user_openid) THEN ev.user_openid
    ELSE "unknown"

\* C18: a published direct event has as sender id and chat id the author id
\* when it carries a value, else the user_openid when it carries a value, else
\* "unknown".
C18_SenderFallback ==
    last.op = "direct" =>
        \A k \in 1..Len(last.pubs) :
            /\ last.pubs[k].sender_id = ExpectedSender(last.ev)
            /\ last.pubs[k].chat_id = ExpectedSender(last.ev)

\* what C19 says of a callback that starts while a publish of the same id is
\* in flight, when cond holds of it
C19Holds(cond) ==
    /\ IsCallback /\ last.before = "publishing" /\ cond => last.pubs = <<>>
    /\ \A i \in Publishing :
          Cardinality(since[i]) < DedupCapacity => i \in {processed_ids[k] : k \in 1..Len(processed_ids)}

\* C19 as stated: the id is recorded in the step that tests it, and a
\* callback that starts while a publish of the same id is in flight does not
\* publish.
C19_Original == C19Holds(TRUE)

\* C19 (amended): the same, for a callback that starts while fewer than
\* DedupCapacity other ids were recorded since the id in flight was.
C19_Amended == C19Holds(IsCallback /\ last.others < DedupCapacity)

\* an event with content is delivered again while the publish of its first
\* delivery is in flight
C19_Witness ==
    /\ IsCallback /\ last.before = "publishing" /\ last.present
    /\ WellFormed(last.ev) /\ Normalized(last.ev.kind, last.ev.content.v) /= <<>>
    /\ last.pubs = <<>> /\ inflight >= 1

\* C20: an id that passes the membership test is in the window when the
\* callback suspends or ends, whether the event is published, dropped for its
\* empty content or dropped by an exception after the id check; and a
\* delivery of an id that is in the window publishes nothing, whatever became
\* of the event that recorded it.
C20_RecordedBeforeContent ==
    IsCallback =>
        /\ last.ev.id \in IDs /\ ~last.present =>
              /\ last.appended
              /\ processed_ids /= <<>> /\ processed_ids[Len(processed_ids)] = last.ev.id
        /\ last.present => last.pubs = <<>> /\ ~last.appended
        /\ last.present /\ last.before \in {"empty", "raised", "failed"} => last.pubs = <<>>

\* an event with content is delivered again after the publish of its first
\* delivery raised
C20_Witness ==
    /\ IsCallback /\ last.present /\ last.before = "failed"
    /\ WellFormed(last.ev) /\ Normalized(last.ev.kind, last.ev.content.v) /= <<>>
====
